---- MODULE Spec2Model ----
(***************************************************************************)
(* Model of docker/tool.py, the QMENTA entry point of the OXASL pipeline.  *)
(*                                                                         *)
(* run(context) is one sequential procedure.  Its state is the position in *)
(* the procedure (pc), the command list being assembled (oxasl_cmd), and   *)
(* what it has done to the outside world: the set_progress calls, the      *)
(* upload_file calls, the child processes started, the files downloaded    *)
(* and the oxasl_output directory.  Every call into the platform, the      *)
(* filesystem or a child process either returns or raises; the outcome is  *)
(* chosen nondeterministically at the step that makes the call.            *)
(* set_progress is taken not to raise.                                     *)
(*                                                                         *)
(* Strings the code inspects or builds are sequences of atoms: a one       *)
(* character string per character where the code looks at characters      *)
(* (file names, the labelling setting), one atom for a literal the code    *)
(* only copies ("/root/nifti/", "--casl").  A command is a sequence of     *)
(* such strings.                                                           *)
(***************************************************************************)
EXTENDS Integers, Sequences, FiniteSets, TLC

VARIABLES pc, key, oxasl_cmd, progress, uploads, calls, downloads,
          handlers, path, listing, idx, outdir, logfile, exc, settings,
          status

vars == <<pc, key, oxasl_cmd, progress, uploads, calls, downloads,
          handlers, path, listing, idx, outdir, logfile, exc, settings, status>>

(* ---------------------------- bounds ---------------------------------- *)
\* most file handlers get_files returns for one key
MaxHandlers == 2
\* most lines the FSL environment dump has
MaxLines == 1
\* most entries of a downloaded DICOM directory / of the nifti directory
MaxDcm == 1
\* most files oxasl leaves in oxasl_output/output/native
MaxFiles == 11

(* ---------------------------- strings --------------------------------- *)
Keys == {"asl", "struc"}

EndsWith(s, suffix) ==
    /\ Len(s) >= Len(suffix)
    /\ SubSeq(s, Len(s) - Len(suffix) + 1, Len(s)) = suffix

UpperToLower ==
    [c \in {"P", "C", "A", "S", "L", "N", "I"} |->
        CASE c = "P" -> "p" [] c = "C" -> "c" [] c = "A" -> "a"
          [] c = "S" -> "s" [] c = "L" -> "l" [] c = "N" -> "n"
          [] c = "I" -> "i"]

\* str.lower()
Lower(s) ==
    [i \in 1..Len(s) |->
        IF s[i] \in DOMAIN UpperToLower THEN UpperToLower[s[i]] ELSE s[i]]

Whitespace == {" ", "\t", "\n"}

\* str.strip() with no argument: drops leading and trailing whitespace
StripNone(s) == s

Strip(s) ==
    LET keep == {i \in 1..Len(s) : s[i] \notin Whitespace}
    IN  IF keep = {} THEN <<>>
        ELSE LET lo == CHOOSE i \in keep : \A j \in keep : i <= j
                 hi == CHOOSE i \in keep : \A j \in keep : i >= j
             IN  SubSeq(s, lo, hi)

\* os.path.basename: what follows the last "/"
Basename(p) ==
    LET slashes == {i \in 1..Len(p) : p[i] = "/"}
    IN  IF slashes = {} THEN p
        ELSE SubSeq(p, (CHOOSE i \in slashes : \A j \in slashes : i >= j) + 1,
                    Len(p))

\* f"/root/dicom/{key}" and f"/root/nifti/{key}"
DicomDir(k) == <<"/root/dicom/", k>>
NiftiDir(k) == <<"/root/nifti/", k>>

\* os.path.join(dir, name)
Join(dir, name) == dir \o <<"/">> \o name

IsNiftiNiiOnly(p) == EndsWith(p, <<".", "n", "i", "i">>)

\* path.endswith(".nii") or path.endswith(".nii.gz")
IsNifti(p) ==
    \/ EndsWith(p, <<".", "n", "i", "i">>)
    \/ EndsWith(p, <<".", "n", "i", "i", ".", "g", "z">>)

\* f"{niftidir}/{key}.nii.gz"
ConvertedPath(k) == NiftiDir(k) \o <<"/", k, ".", "n", "i", "i", ".", "g", "z">>

\* f"{key}.nii.gz"
ConvertedName(k) == <<k, ".", "n", "i", "i", ".", "g", "z">>

\* names the platform may give a downloaded file or unpacked directory
DownloadNames ==
    { <<"a", ".", "n", "i", "i">>,
      <<"a", ".", "n", "i", "i", ".", "g", "z">>,
      <<"d", "c", "m">> }

\* values of the 'labelling' setting
LabellingValues ==
    { <<"p", "c", "a", "s", "l">>,
      <<" ", "P", "c", "A", "S", "L", "\n">>,
      <<"p", "a", "s", "l">>,
      <<"p", "c", " ", "a", "s", "l">> }

\* values of the 'plds' setting; the code passes the value on unread
PldsValues == { <<"1.8">>, <<"--tis">>, <<"-s">> }

OxaslDir == <<"oxasl_output">>
LogfilePath == <<"oxasl_output/logfile">>
NativeDir == <<"oxasl_output/output/native">>
\* how many files os.listdir may find in the native output directory
ListingSizes == {0, 2, MaxFiles}
\* the names os.listdir gives for the native output directory
NativeName(i) == <<"out", ToString(i)>>

(* ---------------------------- helpers --------------------------------- *)
Msg(v, m) == [value |-> v, message |-> m]

\* context.set_progress(value=v, message=m)
SetProgress(p, v, m) == Append(p, Msg(v, m))

\* n calls of set_progress with the same value and message
RECURSIVE Repeat(_, _, _, _)
Repeat(p, n, v, m) ==
    IF n = 0 THEN p ELSE Repeat(SetProgress(p, v, m), n - 1, v, m)

\* an exception leaves the try body of run: control goes to the handler
Raise(e) == /\ pc' = "except"
            /\ exc' = e

Option(k) == IF k = "asl" THEN <<"-i">> ELSE <<"-s">>
ProgressOf(k) == IF k = "asl" THEN 11 ELSE 12

RequiredNever(k) == FALSE
\* run passes required=True (the default) for 'asl', required=False for 'struc'
Required(k) == k = "asl"

TooManyOff(n) == n > 2
\* len(file_handlers) > 1
TooMany(n) == n > 1

(* ---------------------------- initial state --------------------------- *)
Init ==
    /\ pc = "start"
    /\ key = "asl"
    /\ oxasl_cmd = <<>>
    /\ progress = <<>>
    /\ uploads = <<>>
    /\ calls = <<>>
    /\ downloads = <<>>
    /\ handlers = [k \in Keys |-> -1]
    /\ path = <<>>
    /\ listing = 0
    /\ idx = 0
    /\ outdir = FALSE
    /\ logfile = "absent"
    /\ exc = "none"
    /\ settings \in [labelling : LabellingValues, plds : PldsValues]
    /\ status = "none"

(* ---------------------------- run: lines 130-139 ---------------------- *)
\* lines 131-137: read version.txt; any failure gives "(unknown)"
ReadVersion ==
    /\ pc = "start"
    /\ progress' = SetProgress(progress, 0, "Running OXASL analysis tool")
    /\ pc' = "fetch"
    /\ UNCHANGED <<key, oxasl_cmd, uploads, calls, downloads, handlers, path,
                   listing, idx, outdir, logfile, exc, settings, status>>

\* line 138
FetchAnalysisData ==
    /\ pc = "fetch"
    /\ \/ pc' = "setup_fsl" /\ UNCHANGED exc
       \/ Raise("Exception")
    /\ UNCHANGED <<key, oxasl_cmd, progress, uploads, calls, downloads,
                   handlers, path, listing, idx, outdir, logfile, settings, status>>

\* lines 15-34, called with progress=1.  check_output may fail to start the
\* command (OSError: the command is one string and no shell is asked for),
\* the command may exit non-zero (CalledProcessError, re-raised as
\* RuntimeError), or its output may be bytes, on which split("\n") raises
\* TypeError.  Only when check_output hands back text does the loop run:
\* each line then either parses as key=value or is reported with a warning.
SetupFsl ==
    /\ pc = "setup_fsl"
    /\ calls' = Append(calls, <<"sh", "fsl.sh">>)
    /\ \/ /\ \E e \in {"OSError", "TypeError",
                       "RuntimeError: Failed to execute FSL setup script"} :
                Raise(e)
          /\ UNCHANGED progress
       \/ /\ \E bad \in 0..MaxLines :
                progress' = SetProgress(
                    Repeat(progress, bad, 1, "WARNING: Setting up FSL"),
                    1, "Set up FSL environment")
          /\ pc' = "init_cmd"
          /\ UNCHANGED exc
    /\ UNCHANGED <<key, oxasl_cmd, uploads, downloads, handlers, path,
                   listing, idx, outdir, logfile, settings, status>>

\* lines 142-144
InitCmd ==
    /\ pc = "init_cmd"
    /\ oxasl_cmd' = << <<"oxasl">>, <<"-o">>, OxaslDir, <<"--debug">> >>
    /\ progress' = SetProgress(progress, 10, "Getting input data in NIFTI format")
    /\ key' = "asl"
    /\ pc' = "get_files"
    /\ UNCHANGED <<uploads, calls, downloads, handlers, path, listing, idx,
                   outdir, logfile, exc, settings, status>>

(* ---------------------------- get_input_data: lines 36-89 ------------- *)
Upload(p, n, c, ok) == [path |-> p, name |-> n, content |-> c, ok |-> ok]

\* lines 50-60: get_files raising counts as no file
GetFiles ==
    /\ pc = "get_files"
    /\ \E raised \in BOOLEAN, n \in 0..MaxHandlers :
          LET count == IF raised THEN 0 ELSE n
          IN  /\ handlers' = [handlers EXCEPT ![key] = count]
              /\ IF count = 0
                 THEN IF Required(key)
                      THEN Raise("RuntimeError: Required data not provided")
                      ELSE pc' = "input_done" /\ UNCHANGED exc
                 ELSE IF TooMany(count)
                      THEN Raise("RuntimeError: Expected single input file")
                      ELSE pc' = "download" /\ UNCHANGED exc
    /\ UNCHANGED <<key, oxasl_cmd, progress, uploads, calls, downloads, path,
                   listing, idx, outdir, logfile, settings, status>>

\* lines 62-67: makedirs and download may raise
Download ==
    /\ pc = "download"
    /\ \/ /\ \E e \in {"OSError", "Exception"} : Raise(e)
          /\ UNCHANGED <<path, downloads, progress>>
       \/ /\ \E name \in DownloadNames : path' = Join(DicomDir(key), name)
          /\ downloads' = Append(downloads, [key |-> key, path |-> path'])
          /\ progress' = SetProgress(progress, ProgressOf(key), "Downloaded data")
          /\ pc' = "detect"
          /\ UNCHANGED exc
    /\ UNCHANGED <<key, oxasl_cmd, uploads, calls, handlers, listing, idx,
                   outdir, logfile, settings, status>>

\* lines 69-71, 88-89: the download is NIfTI already
CopyNifti ==
    /\ pc = "detect"
    /\ IsNifti(path)
    /\ \/ /\ Raise("OSError")
          /\ UNCHANGED <<path, progress, oxasl_cmd>>
       \/ /\ path' = Join(NiftiDir(key), Basename(path))
          /\ progress' = SetProgress(progress, ProgressOf(key), "Got data")
          /\ oxasl_cmd' = oxasl_cmd \o <<Option(key), path'>>
          /\ pc' = "input_done"
          /\ UNCHANGED exc
    /\ UNCHANGED <<key, uploads, calls, downloads, handlers, listing, idx,
                   outdir, logfile, settings, status>>

\* lines 72-75: otherwise the download is taken to be a DICOM directory
ListDicom ==
    /\ pc = "detect"
    /\ ~IsNifti(path)
    /\ \/ /\ Raise("OSError")
          /\ UNCHANGED progress
       \/ /\ \E n \in 0..MaxDcm :
                progress' = Repeat(progress, n, ProgressOf(key), "DCM file found")
          /\ pc' = "dcm2niix"
          /\ UNCHANGED exc
    /\ UNCHANGED <<key, oxasl_cmd, uploads, calls, downloads, handlers, path,
                   listing, idx, outdir, logfile, settings, status>>

\* lines 77-78, 85-86
Dcm2niix ==
    /\ pc = "dcm2niix"
    /\ calls' = Append(calls,
            <<"dcm2niix", key>>)
    /\ \/ Raise("RuntimeError: Failed to perform DCM-NII conversion")
       \/ Raise("OSError")
       \/ pc' = "converted" /\ UNCHANGED exc
    /\ UNCHANGED <<key, oxasl_cmd, progress, uploads, downloads, handlers,
                   path, listing, idx, outdir, logfile, settings, status>>

\* lines 79-84, 88-89: listdir, nib.load and upload_file may raise
Converted ==
    /\ pc = "converted"
    /\ \E n \in 0..MaxDcm :
         LET listed == Repeat(progress, n, ProgressOf(key), "DCM2NIIX output")
             sized == SetProgress(listed, ProgressOf(key), "Dimensions")
         IN  \/ /\ Raise("OSError")
                /\ UNCHANGED <<progress, path, uploads, oxasl_cmd>>
             \/ /\ Raise("Exception")
                /\ progress' = listed
                /\ path' = ConvertedPath(key)
                /\ UNCHANGED <<uploads, oxasl_cmd>>
             \/ /\ Raise("Exception")
                /\ progress' = sized
                /\ path' = ConvertedPath(key)
                /\ uploads' = Append(uploads,
                        Upload(path', ConvertedName(key), "image", FALSE))
                /\ UNCHANGED oxasl_cmd
             \/ /\ path' = ConvertedPath(key)
                /\ uploads' = Append(uploads,
                        Upload(path', ConvertedName(key), "image", TRUE))
                /\ progress' = SetProgress(sized, ProgressOf(key), "Got data")
                /\ oxasl_cmd' = oxasl_cmd \o <<Option(key), path'>>
                /\ pc' = "input_done"
                /\ UNCHANGED exc
    /\ UNCHANGED <<key, calls, downloads, handlers, listing, idx, outdir,
                   logfile, settings, status>>

NextInputSkipsAssembly ==
    /\ pc = "input_done"
    /\ IF key = "asl"
       THEN key' = "struc" /\ pc' = "get_files"
       ELSE pc' = "run_oxasl" /\ UNCHANGED key
    /\ path' = <<>>
    /\ UNCHANGED <<oxasl_cmd, progress, uploads, calls, downloads, handlers,
                   listing, idx, outdir, logfile, exc, settings, status>>

\* lines 145-148: get_input_data returned, its local path is gone
NextInput ==
    /\ pc = "input_done"
    /\ IF key = "asl"
       THEN /\ key' = "struc"
            /\ pc' = "get_files"
            /\ UNCHANGED progress
       ELSE /\ progress' = SetProgress(progress, 20, "Getting input parameters")
            /\ pc' = "labelling"
            /\ UNCHANGED key
    /\ path' = <<>>
    /\ UNCHANGED <<oxasl_cmd, uploads, calls, downloads, handlers,
                   listing, idx, outdir, logfile, exc, settings, status>>

(* ---------------------------- command assembly: lines 91-122 ---------- *)
Pcasl == <<"p", "c", "a", "s", "l">>

\* line 100: settings['labelling'].lower().strip()
Labelling(value) == Strip(Lower(value))

\* lines 100-104: the command get_labelling leaves
LabellingOptions(cmd, value) ==
    IF Lower(Labelling(value)) = Pcasl THEN Append(cmd, <<"--casl">>) ELSE cmd

\* "--casl" in oxasl_cmd
HasCasl(cmd) == \E i \in 1..Len(cmd) : cmd[i] = <<"--casl">>

\* lines 117-122: the command get_timings leaves
TimingOptions(cmd, plds) ==
    IF HasCasl(cmd) THEN cmd \o << <<"--plds">>, plds >>
                    ELSE cmd \o << <<"--tis">>, plds >>

\* lines 91-104: get_settings or the lookup of 'labelling' may raise
GetLabelling ==
    /\ pc = "labelling"
    /\ \/ /\ \E e \in {"Exception", "KeyError"} : Raise(e)
          /\ UNCHANGED <<progress, oxasl_cmd>>
       \/ /\ progress' = SetProgress(progress, 21, "labelling=")
          /\ oxasl_cmd' = LabellingOptions(oxasl_cmd, settings.labelling)
          /\ pc' = "timings"
          /\ UNCHANGED exc
    /\ UNCHANGED <<key, uploads, calls, downloads, handlers, path, listing,
                   idx, outdir, logfile, settings, status>>

\* lines 106-122: get_settings or the lookup of 'plds' may raise
GetTimings ==
    /\ pc = "timings"
    /\ \/ /\ \E e \in {"Exception", "KeyError"} : Raise(e)
          /\ UNCHANGED <<progress, oxasl_cmd>>
       \/ /\ progress' = SetProgress(progress, 22,
                            IF HasCasl(oxasl_cmd) THEN "PLDS=" ELSE "TIs=")
          /\ oxasl_cmd' = TimingOptions(oxasl_cmd, settings.plds)
          /\ pc' = "run_oxasl"
          /\ UNCHANGED exc
    /\ UNCHANGED <<key, uploads, calls, downloads, handlers, path, listing,
                   idx, outdir, logfile, settings, status>>

(* ---------------------------- run: lines 152-174 ---------------------- *)
\* what the oxasl process may leave of oxasl_output and its logfile
OxaslLeaves(dir, log) ==
    /\ dir \in BOOLEAN
    /\ log \in {"absent", "oxasl"}
    /\ (log = "oxasl" => dir)

\* lines 152-154: check_output(oxasl_cmd) fails to start the process, or the
\* process exits with zero or with non-zero status
RunOxasl ==
    /\ pc = "run_oxasl"
    /\ progress' = SetProgress(progress, 30, "Running OXASL")
    /\ calls' = Append(calls, <<"oxasl", "oxasl_cmd">>)
    /\ \/ /\ Raise("OSError")
          /\ UNCHANGED <<outdir, logfile, status>>
       \/ /\ \E s \in {"zero", "nonzero"} :
                /\ status' = s
                /\ pc' = IF s = "zero" THEN "oxasl_ok" ELSE "oxasl_failed"
          /\ \E dir \in BOOLEAN, log \in {"absent", "oxasl"} :
                /\ OxaslLeaves(dir, log)
                /\ outdir' = dir
                /\ logfile' = log
          /\ UNCHANGED exc
    /\ UNCHANGED <<key, oxasl_cmd, uploads, downloads, handlers, path,
                   listing, idx, settings>>

\* lines 155-157: listdir raises when the directory is missing, and may
\* raise otherwise
OxaslCompleted ==
    /\ pc = "oxasl_ok"
    /\ progress' = SetProgress(SetProgress(progress, 50, "OXASL completed"),
                               70, "Uploading OXASL output data")
    /\ \/ /\ Raise("OSError")
          /\ UNCHANGED <<listing, idx>>
       \/ /\ outdir
          /\ \E n \in ListingSizes : listing' = n
          /\ idx' = 0
          /\ pc' = "upload_outputs"
          /\ UNCHANGED exc
    /\ UNCHANGED <<key, oxasl_cmd, uploads, calls, downloads, handlers, path,
                   outdir, logfile, settings, status>>

\* line 158: value=71+idx
OutputValue(i) == 71 + i

NextIdxSkip(i) == i + 2
\* enumerate: the next index
NextIdx(i) == i + 1

\* lines 157-159: one iteration of the upload loop
UploadOutput ==
    /\ pc = "upload_outputs"
    /\ idx < listing
    /\ progress' = SetProgress(progress, OutputValue(idx), "Uploading")
    /\ \E ok \in BOOLEAN :
          /\ uploads' = Append(uploads,
                Upload(Join(NativeDir, NativeName(idx)), NativeName(idx),
                       "output", ok))
          /\ IF ok THEN idx' = NextIdx(idx) /\ UNCHANGED <<pc, exc>>
                   ELSE Raise("Exception") /\ UNCHANGED idx
    /\ UNCHANGED <<key, oxasl_cmd, calls, downloads, handlers, path, listing,
                   outdir, logfile, settings, status>>

\* lines 160-166: the process exited non-zero.  open(.., "w") raises when
\* oxasl_output is missing and creates the file otherwise; write raises
\* TypeError when the captured output is bytes.
OxaslFailed ==
    /\ pc = "oxasl_failed"
    /\ IF logfile # "absent"
       THEN /\ progress' = SetProgress(progress, 60,
                                "OXASL command failed - logfile found")
            /\ pc' = "upload_log"
            /\ UNCHANGED <<logfile, exc>>
       ELSE /\ progress' = SetProgress(progress, 60,
                                "OXASL command failed - using stdout as log")
            /\ IF ~outdir
               THEN Raise("OSError") /\ UNCHANGED logfile
               ELSE \/ /\ logfile' = "empty"
                       /\ Raise("TypeError")
                    \/ /\ logfile' = "stdout"
                       /\ pc' = "upload_log"
                       /\ UNCHANGED exc
    /\ UNCHANGED <<key, oxasl_cmd, uploads, calls, downloads, handlers, path,
                   listing, idx, outdir, settings, status>>

\* lines 168-171: upload_file raises when the logfile is missing, and may
\* raise otherwise
UploadLog ==
    /\ \/ pc = "upload_log"
       \/ pc = "upload_outputs" /\ idx >= listing
    /\ \E ok \in BOOLEAN :
          /\ (logfile = "absent" => ~ok)
          /\ uploads' = Append(uploads,
                Upload(LogfilePath, <<"logfile.txt">>, logfile, ok))
          /\ IF ok
             THEN /\ progress' = SetProgress(
                        SetProgress(progress, 80, "Uploading OXASL logfile"),
                        100, "Complete!")
                  /\ pc' = "done"
                  /\ UNCHANGED exc
             ELSE /\ progress' = SetProgress(progress, 80,
                                             "Uploading OXASL logfile")
                  /\ Raise("Exception")
    /\ UNCHANGED <<key, oxasl_cmd, calls, downloads, handlers, path, listing,
                   idx, outdir, logfile, settings, status>>

TopLevelExceptSilent ==
    /\ pc = "except"
    /\ pc' = "done"
    /\ UNCHANGED <<key, oxasl_cmd, progress, uploads, calls, downloads,
                   handlers, path, listing, idx, outdir, logfile, exc,
                   settings, status>>

\* lines 172-174: the traceback of exc is reported at 100%
TopLevelExcept ==
    /\ pc = "except"
    /\ progress' = SetProgress(progress, 100, "Failed: ")
    /\ pc' = "done"
    /\ UNCHANGED <<key, oxasl_cmd, uploads, calls, downloads, handlers, path,
                   listing, idx, outdir, logfile, exc, settings, status>>

Next ==
    \/ ReadVersion
    \/ FetchAnalysisData
    \/ SetupFsl
    \/ InitCmd
    \/ GetFiles
    \/ Download
    \/ CopyNifti
    \/ ListDicom
    \/ Dcm2niix
    \/ Converted
    \/ NextInput
    \/ GetLabelling
    \/ GetTimings
    \/ RunOxasl
    \/ OxaslCompleted
    \/ UploadOutput
    \/ OxaslFailed
    \/ UploadLog
    \/ TopLevelExcept

Spec == Init /\ [][Next]_vars

(* ---------------------------- vocabulary of the claims --------------- *)
BaseCmd == << <<"oxasl">>, <<"-o">>, OxaslDir, <<"--debug">> >>

\* options of the oxasl command line that take one argument
TakesArgument == { <<"-o">>, <<"-i">>, <<"-s">>, <<"--plds">>, <<"--tis">> }

\* positions of cmd that hold an option, reading from position i: the token
\* after an option that takes an argument is that argument, not an option
RECURSIVE OptionPositions(_, _)
OptionPositions(cmd, i) ==
    IF i > Len(cmd) THEN {}
    ELSE {i} \cup OptionPositions(cmd, IF cmd[i] \in TakesArgument
                                       THEN i + 2 ELSE i + 1)

\* the option positions of the command as it stands; argv[0] is no option
Options == OptionPositions(oxasl_cmd, 2)

\* where the flag f occurs as an option, opts being the option positions
FlagAt(opts, f) == {i \in opts : oxasl_cmd[i] = f}
FlagCount(opts, f) == Cardinality(FlagAt(opts, f))

\* the token is a path directly inside /root/nifti/<k>
InNiftiDir(tok, k) ==
    /\ Len(tok) > 3
    /\ SubSeq(tok, 1, 3) = <<"/root/nifti/", k, "/">>
    /\ \A i \in 4..Len(tok) : tok[i] # "/"

\* every occurrence of the flag f is followed by one path inside /root/nifti/<k>
FollowedByPath(opts, f, k) ==
    \A i \in FlagAt(opts, f) :
        i < Len(oxasl_cmd) /\ InNiftiDir(oxasl_cmd[i + 1], k)

Invoked(prog) == {i \in 1..Len(calls) : calls[i][1] = prog}
OxaslInvoked == Invoked("oxasl") # {}
ConverterInvoked(k) == \E i \in 1..Len(calls) : calls[i] = <<"dcm2niix", k>>

Last(q) == q[Len(q)]
TerminalText == {"Complete!", "Failed: "}
IsTerminal(m) == m.value = 100 /\ m.message \in TerminalText
TerminalAt == {i \in 1..Len(progress) : IsTerminal(progress[i])}
EndedFailed == pc = "done" /\ Last(progress) = Msg(100, "Failed: ")
EndedComplete == pc = "done" /\ Last(progress) = Msg(100, "Complete!")
Said(v, m) == \E i \in 1..Len(progress) : progress[i] = Msg(v, m)

LogUploads == {i \in 1..Len(uploads) : uploads[i].path = LogfilePath}

(* ---------------------------- C1 -------------------------------------- *)
\* C1: whatever step fails, run returns instead of raising, and once it has
\* returned the last set_progress call has value 100 and says "Complete!"
\* or "Failed: " with the traceback; that terminal message is emitted
\* exactly once per run, and not before the run ends.  It is the "Failed: "
\* one exactly when an exception reached the top-level handler.
C1_TerminalMessage ==
    /\ pc = "done" =>
          /\ Len(progress) > 0
          /\ IsTerminal(Last(progress))
          /\ TerminalAt = {Len(progress)}
          /\ (Last(progress).message = "Failed: ") <=> (exc # "none")
    /\ pc # "done" => TerminalAt = {}

\* a run that failed inside the stdout-as-log fallback has ended
C1_Witness ==
    /\ pc = "done"
    /\ exc = "TypeError"
    /\ status = "nonzero"

(* ---------------------------- C2 -------------------------------------- *)
\* C2: "Complete!" is the terminal message only of runs in which no step
\* failed; a run in which oxasl exited non-zero ends in "Failed: ".
C2_CompleteOnlyWithoutFailure ==
    EndedComplete => status = "zero"

(* ---------------------------- C3 -------------------------------------- *)
\* the labelling values of LabellingValues that denote CASL labelling:
\* "pcasl" once lower-cased and stripped of surrounding whitespace
CaslLabellings ==
    { <<"p", "c", "a", "s", "l">>,
      <<" ", "P", "c", "A", "S", "L", "\n">> }

TimingsDone == Said(22, "PLDS=") \/ Said(22, "TIs=")

\* C3: once get_labelling and get_timings have run, the command has exactly
\* one of the options --plds and --tis, immediately followed by the 'plds'
\* setting; it is --plds, with --casl in the command, when the labelling
\* setting denotes CASL labelling, and --tis, with no --casl option in the
\* command, for every other labelling value.
C3_TimingFlag ==
    LET opts == Options IN
    TimingsDone =>
        LET casl == settings.labelling \in CaslLabellings
            flag == IF casl THEN <<"--plds">> ELSE <<"--tis">>
            other == IF casl THEN <<"--tis">> ELSE <<"--plds">>
        IN  /\ FlagCount(opts, flag) = 1
            /\ FlagCount(opts, other) = 0
            /\ \A i \in FlagAt(opts, flag) :
                  /\ i + 1 = Len(oxasl_cmd)
                  /\ oxasl_cmd[i + 1] = settings.plds
            /\ FlagCount(opts, <<"--casl">>) = (IF casl THEN 1 ELSE 0)
            /\ Said(22, "PLDS=") <=> casl

\* timings were appended for an upper-case, padded CASL labelling whose
\* timing value itself looks like a flag
C3_Witness ==
    /\ TimingsDone
    /\ settings.labelling = <<" ", "P", "c", "A", "S", "L", "\n">>
    /\ settings.plds = <<"--tis">>
    /\ Last(oxasl_cmd) = <<"--tis">>

(* ---------------------------- C4 -------------------------------------- *)
\* C4: when the platform returns more than one file for a key, nothing is
\* downloaded for it, its option is not added to the command, oxasl is never
\* invoked and the run ends in the failure message; and in a command passed
\* to oxasl each of -i and -s occurs at most once, followed by one path.
C4_SingleInput ==
    LET opts == Options IN
    /\ \A k \in Keys : handlers[k] > 1 =>
          /\ \A i \in 1..Len(downloads) : downloads[i].key # k
          /\ FlagCount(opts, Option(k)) = 0
          /\ Len(oxasl_cmd) = (IF k = "asl" THEN 4 ELSE 6)
          /\ ~OxaslInvoked
          /\ pc \in {"except", "done"}
          /\ pc = "done" => EndedFailed
    /\ OxaslInvoked => \A k \in Keys :
          /\ FlagCount(opts, Option(k)) <= 1
          /\ FollowedByPath(opts, Option(k), k)

\* a run with one ASL file and two structural files has ended
C4_Witness ==
    /\ handlers["asl"] = 1
    /\ handlers["struc"] = 2
    /\ pc = "done"

(* ---------------------------- C5 -------------------------------------- *)
\* C5: oxasl is invoked at most once, as the last child process and after
\* the FSL setup; when it is invoked setup_fsl has completed, the ASL input
\* has been downloaded and stands in the command as "-i <path>", and
\* get_labelling and get_timings have added their options; nothing under
\* oxasl_output is uploaded before the invocation has returned or failed.
C5_StepOrder ==
    LET opts == Options IN
    /\ Cardinality(Invoked("oxasl")) <= 1
    /\ \A i \in Invoked("oxasl") : i = Len(calls) /\ 1 \in Invoked("sh")
    /\ \A i \in Invoked("sh") : i = 1
    /\ OxaslInvoked =>
          /\ Said(1, "Set up FSL environment")
          /\ \E i \in 1..Len(downloads) : downloads[i].key = "asl"
          /\ Len(oxasl_cmd) >= 8
          /\ SubSeq(oxasl_cmd, 1, 5) = Append(BaseCmd, <<"-i">>)
          /\ InNiftiDir(oxasl_cmd[6], "asl")
          /\ Said(21, "labelling=")
          /\ TimingsDone
          /\ FlagCount(opts, <<"--plds">>)
               + FlagCount(opts, <<"--tis">>) = 1
    /\ \A i \in 1..Len(uploads) :
          uploads[i].content # "image" => status # "none"

\* oxasl has been invoked and its log uploaded
C5_Witness ==
    /\ OxaslInvoked
    /\ LogUploads # {}
    /\ ConverterInvoked("asl")

(* ---------------------------- C6 -------------------------------------- *)
\* C6: whenever oxasl exits non-zero the run goes on to upload a log as
\* logfile.txt: by the time the run ends, the upload of an existing logfile,
\* holding oxasl's own log or the captured output, has been attempted.
C6_LogAlwaysUploaded ==
    (pc = "done" /\ status = "nonzero") =>
        \E i \in LogUploads :
            /\ uploads[i].name = <<"logfile.txt">>
            /\ uploads[i].content \in {"oxasl", "stdout"}

(* ---------------------------- C7 -------------------------------------- *)
\* C7: with no file for the required key 'asl' the run ends in the failure
\* message and oxasl is never invoked; with no file for the optional key
\* 'struc' get_input_data returns having downloaded and uploaded nothing,
\* reported no progress and left the command alone, so that oxasl is then
\* invoked with -i and without -s.
C7_RequiredOptional ==
    /\ [](handlers["asl"] = 0 =>
             /\ ~OxaslInvoked
             /\ downloads = <<>>
             /\ pc \in {"except", "done"}
             /\ pc = "done" => EndedFailed)
    /\ []((OxaslInvoked /\ handlers["struc"] = 0) =>
             /\ FlagCount(Options, <<"-i">>) = 1
             /\ FlagCount(Options, <<"-s">>) = 0)
    /\ [][(pc = "get_files" /\ pc' = "input_done") =>
             /\ key = "struc"
             /\ handlers'["struc"] = 0
             /\ UNCHANGED <<progress, uploads, downloads, calls, oxasl_cmd>>]_vars

\* oxasl was invoked without structural data, the timing value being "-s"
C7_Witness ==
    /\ OxaslInvoked
    /\ handlers["struc"] = 0
    /\ settings.plds = <<"-s">>

(* ---------------------------- C8 -------------------------------------- *)
\* the names of DownloadNames that end in ".nii" or ".nii.gz"
NiftiNames ==
    { <<"a", ".", "n", "i", "i">>,
      <<"a", ".", "n", "i", "i", ".", "g", "z">> }

DownloadedNifti(d) == Basename(d.path) \in NiftiNames

\* C8: dcm2niix is invoked for a key only if its download does not end in
\* .nii or .nii.gz, and for every key whose option reached the command it
\* was invoked exactly if the download does not end so; the path added to
\* the command lies in /root/nifti/<key>; <key>.nii.gz is uploaded only
\* after a conversion; when the converter exits non-zero the key's option
\* is not added and oxasl is never invoked.
C8_NiftiOrDicom ==
    LET opts == Options IN
    /\ \A k \in Keys : ConverterInvoked(k) =>
          \E i \in 1..Len(downloads) :
              downloads[i].key = k /\ ~DownloadedNifti(downloads[i])
    /\ \A i \in 1..Len(downloads) :
          LET k == downloads[i].key
          IN  FlagCount(opts, Option(k)) > 0 =>
                 /\ ConverterInvoked(k) <=> ~DownloadedNifti(downloads[i])
                 /\ FollowedByPath(opts, Option(k), k)
                 /\ DownloadedNifti(downloads[i]) =>
                       \A j \in FlagAt(opts, Option(k)) :
                           Basename(oxasl_cmd[j + 1]) = Basename(downloads[i].path)
    /\ \A i \in 1..Len(uploads) : \A k \in Keys :
          uploads[i].name = ConvertedName(k) =>
              /\ ConverterInvoked(k)
              /\ uploads[i].path = ConvertedPath(k)
    /\ exc = "RuntimeError: Failed to perform DCM-NII conversion" =>
          /\ FlagCount(opts, Option(key)) = 0
          /\ Len(oxasl_cmd) = (IF key = "asl" THEN 4 ELSE 6)
          /\ ~OxaslInvoked

\* oxasl ran on a NIfTI ASL download and a converted structural download
C8_Witness ==
    LET opts == Options IN
    /\ OxaslInvoked
    /\ ~ConverterInvoked("asl")
    /\ ConverterInvoked("struc")
    /\ FlagCount(opts, <<"-s">>) = 1

(* ---------------------------- C9 -------------------------------------- *)
\* C9: after a zero exit, when the upload of logfile.txt is reached every
\* file listed in oxasl_output/output/native has been uploaded exactly once
\* under its own name, and no file is ever uploaded twice; after a non-zero
\* exit no file of that directory is uploaded, the logfile being the only
\* upload that follows the invocation.
C9_OutputUpload ==
    LET outputs == {i \in 1..Len(uploads) : uploads[i].content = "output"}
        listed == {NativeName(n) : n \in 0..(listing - 1)}
    IN  /\ (status = "zero" /\ LogUploads # {}) =>
              /\ {uploads[i].name : i \in outputs} = listed
              /\ \A i \in outputs : uploads[i].ok
              /\ \A i \in outputs : \A j \in LogUploads : i < j
        /\ \A i, j \in outputs : uploads[i].name = uploads[j].name => i = j
        /\ \A i \in outputs :
              /\ status = "zero"
              /\ uploads[i].name \in listed
              /\ uploads[i].path = Join(NativeDir, uploads[i].name)
        /\ Cardinality(LogUploads) <= 1
        /\ status = "nonzero" =>
              \A i \in 1..Len(uploads) :
                  uploads[i].content = "image" \/ i \in LogUploads

\* two output files and then the logfile were uploaded
C9_Witness ==
    /\ status = "zero"
    /\ listing = 2
    /\ EndedComplete

(* ---------------------------- C10 ------------------------------------- *)
\* C10: the values passed to set_progress never decrease, lie in 0..100,
\* and 100 is used by the terminal message only.
C10_ProgressMonotone ==
    /\ \A i \in 1..Len(progress) :
          /\ progress[i].value \in 0..100
          /\ progress[i].value = 100 => progress[i].message \in TerminalText
    /\ \A i \in 1..(Len(progress) - 1) :
          progress[i].value <= progress[i + 1].value

====
